---------------------------- MODULE Spec2Model ----------------------------
(***************************************************************************)
(* A model of pybart's pattern matching engine (src/pybart/new_matcher.py):*)
(* preprocess_constraint, TokenMatcher, GlobalMatcher, Match and Matcher.   *)
(*                                                                         *)
(* Python values are modelled as follows.                                  *)
(*   dict            a function; the empty dict is <<>>                    *)
(*   list            a sequence                                            *)
(*   a call that may raise   a record with a field "raised" naming the     *)
(*                   exception ("none" when the call returns)              *)
(* The constraint classes (pybart/constraints.py), the sentence object and *)
(* the single-token matcher (spaCy) are not part of the source files; they *)
(* are modelled from their description in spec.md.                         *)
(***************************************************************************)
EXTENDS Naturals, Integers, Sequences, FiniteSets, TLC

(***************************************************************************)
(* Bounds of the model.                                                    *)
(***************************************************************************)
\* longest sentence, in nodes
MaxLen == 2
\* most surviving (child, parent) pairs of one edge constraint in SpecMerge
MaxPairs == 2

Labels == {"nsubj", "obj"}
Words == {<<"a">>, <<"b">>}

NoError == "none"

(***************************************************************************)
(* Python helpers.                                                         *)
(***************************************************************************)
EmptyDict == <<>>

\* {**base, **new}
DictMerge(base, new) ==
    [k \in (DOMAIN base) \cup (DOMAIN new) |->
        IF k \in DOMAIN new THEN new[k] ELSE base[k]]

\* d without key k
DictRemove(d, k) == [j \in (DOMAIN d) \ {k} |-> d[j]]

\* bool(d) of a dict or a list
Truthy(d) == DOMAIN d # {}

Range(s) == {s[i] : i \in DOMAIN s}

RECURSIVE SeqConcat(_)
\* the concatenation of a sequence of sequences
SeqConcat(ss) ==
    IF ss = <<>> THEN <<>> ELSE Head(ss) \o SeqConcat(Tail(ss))

RECURSIVE SetToSeq(_)
\* the elements of a finite set of integers in increasing order
SetToSeq(S) ==
    IF S = {} THEN <<>>
    ELSE LET m == CHOOSE x \in S : \A y \in S : x <= y
         IN <<m>> \o SetToSeq(S \ {m})

\* lst[i] = v on a Python list (i counted from 0): an index past the end
\* raises IndexError, it never grows the list
ListSetItem(lst, i, v) ==
    IF i < Len(lst)
    THEN [raised |-> NoError, list |-> [lst EXCEPT ![i + 1] = v]]
    ELSE [raised |-> "IndexError", list |-> lst]

\* d.get(k, default=v): dict.get takes no keyword arguments, so the call
\* raises TypeError whatever d and k are
DictGetKw(d, k, v) ==
    [raised |-> "TypeError", value |-> IF k \in DOMAIN d THEN d[k] ELSE v]

\* d.get(k, v)
DictGet(d, k, v) == IF k \in DOMAIN d THEN d[k] ELSE v

(***************************************************************************)
(* Text: a word is a sequence of characters; a phrase is words joined by   *)
(* "_".                                                                    *)
(***************************************************************************)
RECURSIVE Join(_)
\* "_".join(words)
Join(ws) ==
    IF ws = <<>> THEN <<>>
    ELSE IF Len(ws) = 1 THEN ws[1]
    ELSE ws[1] \o <<"_">> \o Join(Tail(ws))

RECURSIVE SplitFrom(_, _)
\* t.split("_"), with cur the characters read since the last "_"
SplitFrom(t, cur) ==
    IF t = <<>> THEN <<cur>>
    ELSE IF Head(t) = "_" THEN <<cur>> \o SplitFrom(Tail(t), <<>>)
    ELSE SplitFrom(Tail(t), Append(cur, Head(t)))

Split(t) == SplitFrom(t, <<>>)

(***************************************************************************)
(* The constraint model (pybart/constraints.py, from spec.md section 3).   *)
(***************************************************************************)
HasLabelFromList(values) == [kind |-> "HasLabelFromList", values |-> values]
HasNoLabel(values) == [kind |-> "HasNoLabel", values |-> values]

\* the values of a Field: a string, or (after preprocessing) a tuple of words
Str(w) == [str |-> w]
Tup(ws) == [tup |-> ws]

Field(field, value) == [field |-> field, value |-> value]

Token(id, spec, optional, capture, incoming, outgoing) ==
    [id |-> id, spec |-> spec, optional |-> optional, capture |-> capture,
     incoming_edges |-> incoming, outgoing_edges |-> outgoing]

Edge(child, parent, label) == [child |-> child, parent |-> parent, label |-> label]

ExactDistance(t1, t2, d) ==
    [kind |-> "ExactDistance", token1 |-> t1, token2 |-> t2, distance |-> d]
UptoDistance(t1, t2, d) ==
    [kind |-> "UptoDistance", token1 |-> t1, token2 |-> t2, distance |-> d]

TokenPair(t1, t2, tuple_set) ==
    [kind |-> "TokenPair", token1 |-> t1, token2 |-> t2, token3 |-> t2,
     tuple_set |-> tuple_set]
TokenTriplet(t1, t2, t3, tuple_set) ==
    [kind |-> "TokenTriplet", token1 |-> t1, token2 |-> t2, token3 |-> t3,
     tuple_set |-> tuple_set]

Full(tokens, edges, distances, concats) ==
    [tokens |-> tokens, edges |-> edges, distances |-> distances, concats |-> concats]

\* Label.satisfied(actual_labels): the labels of the constraint found among
\* the actual ones.  An unsatisfied constraint is signalled by an exception,
\* which is what the try/except around get_matched_labels handles.
Satisfied(constraint, actual_labels) ==
    IF constraint.kind = "HasNoLabel"
    THEN [raised |-> IF constraint.values \cap actual_labels = {}
                     THEN NoError ELSE "Exception",
          labels |-> {}]
    ELSE [raised |-> IF constraint.values \cap actual_labels # {}
                     THEN NoError ELSE "Exception",
          labels |-> constraint.values \cap actual_labels]

(***************************************************************************)
(* The sentence graph (spec.md sections 3 and 6): nodes 0 .. len-1 in      *)
(* linear order, text[p] the surface word of node p (kept at index p+1),   *)
(* lab[<<c, p>>] the labels holding from child c to parent p.              *)
(***************************************************************************)
Nodes(S) == 0 .. (S.len - 1)

\* sentence.get_labels(child=c, parent=p)
GetLabels(S, c, p) == S.lab[<<c, p>>]

\* sentence.get_labels(child=c): the labels of the edges to c's parents
GetLabelsOfChild(S, c) == UNION {S.lab[<<c, p>>] : p \in Nodes(S)}

\* sentence.get_labels(parent=p): the labels of the edges from p's children
GetLabelsOfParent(S, p) == UNION {S.lab[<<c, p>>] : c \in Nodes(S)}

\* sentence.index(id): the linear position of the node with that id; a node
\* is identified by its position
SentenceIndex(S, id) == id

\* sentence.get_text(w)
GetText(S, w) == S.text[w + 1]

\* the attribute of node p the single-token matcher compares; only the
\* surface text is modelled
NodeAttr(S, p, attr) == IF attr = "TEXT" THEN {S.text[p + 1]} ELSE {}

\* Each node has at most one parent, with one label, and none is its own
\* ancestor: the edge of node c, when it has one, leads to node c + 1.
LabelMaps(n) ==
    {[pr \in (0 .. (n - 1)) \X (0 .. (n - 1)) |->
        IF pr[2] = pr[1] + 1 /\ h[pr[1]] # "none" THEN {h[pr[1]]} ELSE {}] :
     h \in [0 .. (n - 1) -> Labels \cup {"none"}]}

SentencesOfLen(n) ==
    {[len |-> n, text |-> t, lab |-> l] :
        t \in [1 .. n -> Words], l \in LabelMaps(n)}

Sentences == UNION {SentencesOfLen(n) : n \in 0 .. MaxLen}


(***************************************************************************)
(* get_matched_labels (lines 25-29).                                       *)
(***************************************************************************)
RECURSIVE GetMatchedLabels(_, _)
\* the union of what every constraint of the sequence matched; the first
\* constraint that is not satisfied raises, and the exception propagates
GetMatchedLabels(label_constraints, actual_labels) ==
    IF label_constraints = <<>> THEN [raised |-> NoError, labels |-> {}]
    ELSE LET first == Satisfied(Head(label_constraints), actual_labels)
             rest == GetMatchedLabels(Tail(label_constraints), actual_labels)
         IN IF first.raised # NoError THEN [raised |-> first.raised, labels |-> {}]
            ELSE IF rest.raised # NoError THEN rest
            ELSE [raised |-> NoError, labels |-> first.labels \cup rest.labels]

(***************************************************************************)
(* preprocess_constraint (lines 256-290).                                  *)
(***************************************************************************)
\* isinstance(edge.label, HasNoLabel): edge.label is the sequence of Label
\* that line 111 hands to get_matched_labels, and a sequence is no HasNoLabel
IsInstanceHasNoLabel(label) == FALSE

RECURSIVE HoistedLabels(_, _, _)
\* lines 258-265: outs (side = "child") or ins (side = "parent"): for each
\* variable, the labels of the edges it is the child (parent) of
HoistedLabels(edges, side, acc) ==
    IF edges = <<>> THEN acc
    ELSE LET edge == Head(edges)
             id == IF side = "child" THEN edge.child ELSE edge.parent
         IN IF IsInstanceHasNoLabel(edge.label)
            THEN HoistedLabels(Tail(edges), side, acc)
            ELSE HoistedLabels(Tail(edges), side,
                    DictMerge(acc, [k \in {id} |-> DictGet(acc, id, <<>>) \o edge.label]))

\* line 270: list(zip(*[tuple(t.split("_")) for t in concat.tuple_set])):
\* entry k holds the k-th words of the phrases, up to the shortest phrase
ZippedConcat(tuple_set) ==
    IF tuple_set = {} THEN <<>>
    ELSE LET splits == {Split(t) : t \in tuple_set}
             n == CHOOSE m \in {Len(sp) : sp \in splits} :
                      \A sp \in splits : m <= Len(sp)
         IN [k \in 1 .. n |-> Tup({sp[k] : sp \in splits})]

\* how many entries of zipped_concat lines 272-275 read
ConcatArity(concat) == IF concat.kind = "TokenTriplet" THEN 3 ELSE 2

RECURSIVE HoistedWords(_, _)
\* lines 268-275: words, or the IndexError of reading a missing entry of
\* zipped_concat
HoistedWords(concats, acc) ==
    IF concats = <<>> THEN [raised |-> NoError, words |-> acc]
    ELSE LET concat == Head(concats)
             zipped == ZippedConcat(concat.tuple_set)
             add(d, id, k) == DictMerge(d, [j \in {id} |-> Append(DictGet(d, id, <<>>), zipped[k])])
             w1 == add(acc, concat.token1, 1)
             w2 == add(w1, concat.token2, 2)
             w3 == IF concat.kind = "TokenTriplet" THEN add(w2, concat.token3, 3) ELSE w2
         IN IF Len(zipped) < ConcatArity(concat)
            THEN [raised |-> "IndexError", words |-> acc]
            ELSE HoistedWords(Tail(concats), w3)

\* lines 279-289 for one token
PreprocessToken(token, ins, outs, words) ==
    LET got_in == DictGetKw(ins, token.id, <<>>)
        got_out == DictGetKw(outs, token.id, <<>>)
        word_specs == SelectSeq(token.spec, LAMBDA s : s.field = "WORD")
        other_specs == SelectSeq(token.spec, LAMBDA s : s.field # "WORD")
        replaced == [i \in DOMAIN word_specs |->
                        Field("WORD", word_specs[i].value \o DictGet(words, token.id, <<>>))]
        word_fields == IF Len(replaced) = 0 /\ token.id \in DOMAIN words
                       THEN <<Field("WORD", words[token.id])>>
                       ELSE replaced
    IN IF got_in.raised # NoError THEN [raised |-> got_in.raised, token |-> token]
       ELSE IF got_out.raised # NoError THEN [raised |-> got_out.raised, token |-> token]
       ELSE [raised |-> NoError,
             token |-> [token EXCEPT !.spec = other_specs \o word_fields,
                                     !.incoming_edges = token.incoming_edges \o got_in.value,
                                     !.outgoing_edges = token.outgoing_edges \o got_out.value]]

PreprocessConstraint(constraint) ==
    LET outs == HoistedLabels(constraint.edges, "child", EmptyDict)
        ins == HoistedLabels(constraint.edges, "parent", EmptyDict)
        hw == HoistedWords(constraint.concats, EmptyDict)
        done == [i \in DOMAIN constraint.tokens |->
                    PreprocessToken(constraint.tokens[i], ins, outs, hw.words)]
        failed == {i \in DOMAIN done : done[i].raised # NoError}
    IN IF hw.raised # NoError THEN [raised |-> hw.raised, constraint |-> constraint]
       ELSE IF failed # {}
       THEN [raised |-> done[CHOOSE i \in failed : \A j \in failed : i <= j].raised,
             constraint |-> constraint]
       ELSE [raised |-> NoError,
             constraint |-> [constraint EXCEPT !.tokens = [i \in DOMAIN done |-> done[i].token]]]

(***************************************************************************)
(* TokenMatcher (lines 157-225).                                           *)
(***************************************************************************)
\* the attribute names of lines 182-190
SpacyAttr(field) ==
    CASE field = "WORD" -> "TEXT"
      [] field = "LEMMA" -> "LEMMA"
      [] field = "TAG" -> "TAG"
      [] field = "ENTITY" -> "ENT_TYPE"
      [] OTHER -> "none"

RECURSIVE MatchablePattern(_, _)
\* lines 178-190: the pattern dict of one token; a later spec of the same
\* attribute replaces an earlier one
MatchablePattern(spec, acc) ==
    IF spec = <<>> THEN acc
    ELSE LET s == Head(spec)
         IN IF SpacyAttr(s.field) = "none"
            THEN MatchablePattern(Tail(spec), acc)
            ELSE MatchablePattern(Tail(spec),
                    DictMerge(acc, [a \in {SpacyAttr(s.field)} |-> s.value]))

\* _convert_to_matchable (lines 174-193)
ConvertToMatchable(constraints) ==
    [i \in DOMAIN constraints |->
        [name |-> constraints[i].id,
         is_required |-> ~constraints[i].optional,
         pattern |-> MatchablePattern(constraints[i].spec, EmptyDict)]]

\* TokenMatcher.__init__ (lines 158-171)
TokenMatcherInit(constraints) ==
    LET matchable == ConvertToMatchable(constraints)
    IN [incoming_constraints |->
            [id \in {constraints[i].id : i \in DOMAIN constraints} |->
                (CHOOSE c \in Range(constraints) : c.id = id).incoming_edges],
        outgoing_constraints |->
            [id \in {constraints[i].id : i \in DOMAIN constraints} |->
                (CHOOSE c \in Range(constraints) : c.id = id).outgoing_edges],
        matcher |-> [i \in DOMAIN matchable |->
                        [name |-> matchable[i].name, pattern |-> matchable[i].pattern]],
        required_tokens |-> {matchable[i].name : i \in {j \in DOMAIN matchable : matchable[j].is_required}}]

\* The single-token matcher (spec.md section 6): a node matches a pattern
\* when each attribute of the pattern holds one of the accepted values.
NodeMatches(pattern, S, p) ==
    \A attr \in DOMAIN pattern :
        \E v \in NodeAttr(S, p, attr) : Str(v) \in Range(pattern[attr])

\* self.matcher(sentence.doc): the (name, start, end) of every match, a
\* match being one node wide; by pattern, then by position
SpacyMatcher(matcher, S) ==
    SeqConcat([i \in DOMAIN matcher |->
        LET hits == SetToSeq({p \in Nodes(S) : NodeMatches(matcher[i].pattern, S, p)})
        IN [k \in DOMAIN hits |->
                [name |-> matcher[i].name, start |-> hits[k], end |-> hits[k] + 1]]])

\* _post_spacy_matcher (lines 195-202)
PostSpacyMatcher(tm, matched_tokens, S) ==
    LET inc(name, token) ==
            GetMatchedLabels(tm.incoming_constraints[name], GetLabelsOfChild(S, token))
        out(name, token) ==
            GetMatchedLabels(tm.outgoing_constraints[name], GetLabelsOfParent(S, token))
        \* the "and" of line 200 evaluates its second operand only when the
        \* first is true
        raises(name, token) ==
            \/ inc(name, token).raised # NoError
            \/ /\ Cardinality(inc(name, token).labels) > 0
               /\ out(name, token).raised # NoError
        keeps(name, token) ==
            /\ Cardinality(inc(name, token).labels) > 0
            /\ Cardinality(out(name, token).labels) > 0
    IN IF \E name \in DOMAIN matched_tokens :
            \E i \in DOMAIN matched_tokens[name] : raises(name, matched_tokens[name][i])
       THEN [raised |-> "Exception", tokens |-> EmptyDict]
       ELSE [raised |-> NoError,
             tokens |-> [name \in DOMAIN matched_tokens |->
                            SelectSeq(matched_tokens[name], LAMBDA token : keeps(name, token))]]

\* TokenMatcher.apply (lines 204-225)
TokenMatcherApply(tm, S) ==
    LET matches == SpacyMatcher(tm.matcher, S)
        \* line 213: a match of one node has end - 1 = start
        too_wide == \E i \in DOMAIN matches : matches[i].end - 1 = matches[i].start
        matched_tokens ==
            [name \in {matches[i].name : i \in DOMAIN matches} |->
                LET mine == SelectSeq(matches, LAMBDA m : m.name = name)
                IN [k \in DOMAIN mine |-> mine[k].start]]
        post == PostSpacyMatcher(tm, matched_tokens, S)
    IN IF too_wide THEN [raised |-> "ValueError", tokens |-> EmptyDict]
       ELSE IF tm.required_tokens \ (DOMAIN matched_tokens) # {}
       THEN [raised |-> "ValueError", tokens |-> EmptyDict]
       ELSE post

(***************************************************************************)
(* GlobalMatcher (lines 46-154).  captured_labels, a defaultdict(set) kept *)
(* by the GlobalMatcher object, is a sequence of [key, labels] entries in  *)
(* insertion order, key = <<child name, child, parent name, parent>>.      *)
(***************************************************************************)
\* GlobalMatcher.__init__ (lines 47-51)
GlobalMatcherInit(constraint) ==
    [constraint |-> constraint,
     captured_labels |-> <<>>,
     dont_capture_names |->
        LET toks == SelectSeq(constraint.tokens, LAMBDA token : ~token.capture)
        IN [i \in DOMAIN toks |-> toks[i].id]]

\* self.captured_labels[key].update(labels) (line 119)
CapturedUpdate(captured, key, labels) ==
    IF \E i \in DOMAIN captured : captured[i].key = key
    THEN [i \in DOMAIN captured |->
            IF captured[i].key = key
            THEN [key |-> key, labels |-> captured[i].labels \cup labels]
            ELSE captured[i]]
    ELSE Append(captured, [key |-> key, labels |-> labels])

RECURSIVE FilterDistanceFrom(_, _, _)
\* the loop of lines 56-69 over the distances still to check
FilterDistanceFrom(distances, match, S) ==
    IF distances = <<>> THEN [raised |-> NoError, value |-> TRUE]
    ELSE LET distance == Head(distances)
             calculated_distance ==
                 SentenceIndex(S, match[distance.token2])
                 - SentenceIndex(S, match[distance.token1]) - 1
         IN IF distance.token1 \notin DOMAIN match \/ distance.token2 \notin DOMAIN match
            THEN FilterDistanceFrom(Tail(distances), match, S)
            ELSE IF distance.kind = "ExactDistance" /\ distance.distance # calculated_distance
            THEN [raised |-> NoError, value |-> FALSE]
            ELSE IF distance.kind = "UptoDistance" /\ distance.distance < calculated_distance
            THEN [raised |-> NoError, value |-> FALSE]
            ELSE [raised |-> "ValueError", value |-> FALSE]

\* _filter_distance_constraints (lines 54-69)
FilterDistanceConstraints(constraint, match, S) ==
    FilterDistanceFrom(constraint.distances, match, S)

RECURSIVE FilterConcatFrom(_, _, _)
\* the loop of lines 74-91 over the concats still to check
FilterConcatFrom(concats, match, S) ==
    IF concats = <<>> THEN [raised |-> NoError, value |-> TRUE]
    ELSE LET concat == Head(concats)
             names == IF concat.kind = "TokenPair"
                      THEN <<concat.token1, concat.token2>>
                      ELSE <<concat.token1, concat.token2, concat.token3>>
             phrase == Join([i \in DOMAIN names |-> GetText(S, match[names[i]])])
         IN IF concat.kind \notin {"TokenPair", "TokenTriplet"}
            THEN [raised |-> "ValueError", value |-> FALSE]
            ELSE IF \E i \in DOMAIN names : names[i] \notin DOMAIN match
            THEN FilterConcatFrom(Tail(concats), match, S)
            ELSE IF phrase \notin concat.tuple_set
            THEN [raised |-> NoError, value |-> FALSE]
            ELSE FilterConcatFrom(Tail(concats), match, S)

\* _filter_concat_constraints (lines 72-91)
FilterConcatConstraints(constraint, match, S) ==
    FilterConcatFrom(constraint.concats, match, S)

\* _try_merge (lines 93-99)
TryMerge(base_assignment, new_assignment) ==
    IF \E k \in DOMAIN new_assignment :
            new_assignment[k] # DictGet(base_assignment, k, new_assignment[k])
    THEN EmptyDict
    ELSE DictMerge(base_assignment, new_assignment)

\* the assignment of line 117: a dict literal, whose later key wins
PairAssignment(edge, child, parent) ==
    DictMerge([k \in {edge.child} |-> child], [k \in {edge.parent} |-> parent])

RECURSIVE EdgePairsFrom(_, _, _, _)
\* lines 107-121 for one edge over the (child, parent) pairs still to try;
\* acc holds the assignments kept, captured_labels and the queries made
EdgePairsFrom(edge, pairs, acc, S) ==
    IF pairs = <<>> THEN acc
    ELSE LET child == Head(pairs)[1]
             parent == Head(pairs)[2]
             got == GetMatchedLabels(edge.label, GetLabels(S, child, parent))
             asked == Append(acc.queries, <<child, parent>>)
         IN IF got.raised # NoError
            THEN EdgePairsFrom(edge, Tail(pairs), [acc EXCEPT !.queries = asked], S)
            ELSE EdgePairsFrom(edge, Tail(pairs),
                    [assignments |-> Append(acc.assignments, PairAssignment(edge, child, parent)),
                     captured_labels |->
                        CapturedUpdate(acc.captured_labels,
                                       <<edge.child, child, edge.parent, parent>>, got.labels),
                     queries |-> asked], S)

\* the pairs of lines 107-108, children outermost
CandidatePairs(children, parents) ==
    SeqConcat([i \in DOMAIN children |->
        [j \in DOMAIN parents |-> <<children[i], parents[j]>>]])

RECURSIVE EdgeAssignmentsFrom(_, _, _, _, _)
\* the loop of lines 104-121 from edge number i (counted from 0); st holds
\* edge_assignments, captured_labels and the queries made
EdgeAssignmentsFrom(edges, i, st, matches, S) ==
    IF i >= Len(edges) THEN st
    ELSE LET edge == edges[i + 1]
             set == ListSetItem(st.edge_assignments, i, <<>>)
             children == matches[edge.child]
             \* matches[edge.parent] is read once per child
             parents == IF children = <<>> THEN <<>> ELSE matches[edge.parent]
             kept == EdgePairsFrom(edge, CandidatePairs(children, parents),
                        [assignments |-> <<>>, captured_labels |-> st.captured_labels,
                         queries |-> st.queries], S)
         IN IF set.raised # NoError THEN [st EXCEPT !.raised = set.raised]
            ELSE IF edge.child \notin DOMAIN matches THEN [st EXCEPT !.raised = "KeyError"]
            ELSE IF children # <<>> /\ edge.parent \notin DOMAIN matches
            THEN [st EXCEPT !.raised = "KeyError"]
            ELSE EdgeAssignmentsFrom(edges, i + 1,
                    [raised |-> NoError,
                     edge_assignments |-> [set.list EXCEPT ![i + 1] = kept.assignments],
                     captured_labels |-> kept.captured_labels,
                     queries |-> kept.queries], matches, S)

\* lines 126-134: one edge's assignments merged into the running merges
MergeEdge(merges, assignments) ==
    SeqConcat([m \in DOMAIN merges |->
        LET tried == [a \in DOMAIN assignments |-> TryMerge(merges[m], assignments[a])]
        IN SelectSeq(tried, Truthy)])

RECURSIVE MergeFrom(_, _, _)
\* the loop of lines 125-137 from edge number i (counted from 0)
MergeFrom(edge_assignments, i, merges) ==
    IF i >= Len(edge_assignments) THEN merges
    ELSE LET new_merges == MergeEdge(merges, edge_assignments[i + 1])
         IN IF new_merges = <<>> THEN <<>>
            ELSE MergeFrom(edge_assignments, i + 1, new_merges)

\* _filter_edge_constraints (lines 101-139)
FilterEdgeConstraints(gm, matches, S) ==
    LET st == EdgeAssignmentsFrom(gm.constraint.edges, 0,
                [raised |-> NoError, edge_assignments |-> <<>>,
                 captured_labels |-> gm.captured_labels, queries |-> <<>>], matches, S)
    IN [raised |-> st.raised,
        captured_labels |-> st.captured_labels,
        queries |-> st.queries,
        merges |-> IF st.raised # NoError THEN <<>>
                   ELSE MergeFrom(st.edge_assignments, 0, <<EmptyDict>>)]

RECURSIVE PopAll(_, _)
\* line 150: merged_assignment.pop(name) for every name, in order
PopAll(assignment, names) ==
    IF names = <<>> THEN [raised |-> NoError, assignment |-> assignment]
    ELSE IF Head(names) \notin DOMAIN assignment
    THEN [raised |-> "KeyError", assignment |-> assignment]
    ELSE PopAll(DictRemove(assignment, Head(names)), Tail(names))

RECURSIVE CapturedFor(_, _, _)
\* lines 151-152: the dict comprehension over captured_labels.items(); a
\* later entry of the same (child, parent) replaces an earlier one
CapturedFor(captured, assignment, acc) ==
    IF captured = <<>> THEN [raised |-> NoError, labels |-> acc]
    ELSE LET k1 == Head(captured).key[1]
             v1 == Head(captured).key[2]
             k2 == Head(captured).key[3]
             v2 == Head(captured).key[4]
         IN IF k1 \notin DOMAIN assignment THEN [raised |-> "KeyError", labels |-> acc]
            ELSE IF assignment[k1] # v1 THEN CapturedFor(Tail(captured), assignment, acc)
            ELSE IF k2 \notin DOMAIN assignment THEN [raised |-> "KeyError", labels |-> acc]
            ELSE IF assignment[k2] # v2 THEN CapturedFor(Tail(captured), assignment, acc)
            ELSE CapturedFor(Tail(captured), assignment,
                    DictMerge(acc, [pr \in {<<v1, v2>>} |-> Head(captured).labels]))

MatchingResult(name2index, indices2label) ==
    [name2index |-> name2index, indices2label |-> indices2label]

RECURSIVE ApplyNext(_, _, _)
\* lines 145-154: the generator of GlobalMatcher.apply run from the merges
\* still to visit up to its next yield, its end, or an exception
ApplyNext(gm, merges, S) ==
    IF merges = <<>> THEN [kind |-> "stop", raised |-> NoError, rest |-> <<>>]
    ELSE LET merged_assignment == Head(merges)
             dist == FilterDistanceConstraints(gm.constraint, merged_assignment, S)
             conc == FilterConcatConstraints(gm.constraint, merged_assignment, S)
             popped == PopAll(merged_assignment, gm.dont_capture_names)
             captured == CapturedFor(gm.captured_labels, popped.assignment, EmptyDict)
         IN IF dist.raised # NoError
            THEN [kind |-> "raise", raised |-> dist.raised, rest |-> <<>>]
            ELSE IF ~dist.value THEN ApplyNext(gm, Tail(merges), S)
            ELSE IF conc.raised # NoError
            THEN [kind |-> "raise", raised |-> conc.raised, rest |-> <<>>]
            ELSE IF ~conc.value THEN ApplyNext(gm, Tail(merges), S)
            ELSE IF popped.raised # NoError
            THEN [kind |-> "raise", raised |-> popped.raised, rest |-> <<>>]
            ELSE IF captured.raised # NoError
            THEN [kind |-> "raise", raised |-> captured.raised, rest |-> <<>>]
            ELSE [kind |-> "yield", raised |-> NoError, rest |-> Tail(merges),
                  result |-> MatchingResult(popped.assignment, captured.labels)]

(***************************************************************************)
(* Match and Matcher (lines 228-247, 293-305).                             *)
(***************************************************************************)
\* Matchers (lines 228-230) over the two matchers of one constraint, as
\* line 301 builds them
Matchers(constraint) ==
    [state |-> "built", raised |-> NoError,
     token_matcher |-> TokenMatcherInit(constraint.tokens),
     global_matcher |-> GlobalMatcherInit(constraint)]

NoMatchers ==
    [state |-> "none", raised |-> NoError,
     token_matcher |-> TokenMatcherInit(<<>>),
     global_matcher |-> GlobalMatcherInit(Full(<<>>, <<>>, <<>>, <<>>))]

\* Matcher.__init__ (lines 294-301) for one named constraint
MatcherInit(constraint) ==
    LET preprocessed == PreprocessConstraint(constraint)
    IN IF preprocessed.raised # NoError
       THEN [NoMatchers EXCEPT !.state = "failed", !.raised = preprocessed.raised]
       ELSE Matchers(preprocessed.constraint)

EmptySentence == [len |-> 0, text |-> <<>>, lab |-> <<>>]

NoMatch == [made |-> FALSE, sentence |-> EmptySentence]

\* a Match cached by the Matcher and returned for every later sentence
StaleMatch(previous, sentence) ==
    IF previous.made THEN previous ELSE [made |-> TRUE, sentence |-> sentence]

\* Matcher.__call__ (lines 304-305) and Match.__init__ (lines 234-236):
\* a new Match over the sentence handed in
NewMatch(previous, sentence) == [made |-> TRUE, sentence |-> sentence]

NoGen == [status |-> "none", raised |-> NoError, rest |-> <<>>, merges |-> <<>>, queries |-> <<>>]

\* the generator of GlobalMatcher.apply resumed (lines 145-154): the
\* state of the generator and the results yielded so far
Resume(gm, g, yielded, S) ==
    LET step == ApplyNext(gm, g.rest, S)
    IN CASE step.kind = "yield" ->
                [gen |-> [g EXCEPT !.status = "suspended", !.rest = step.rest],
                 results |-> Append(yielded, step.result)]
         [] step.kind = "stop" ->
                [gen |-> [g EXCEPT !.status = "finished", !.rest = <<>>], results |-> yielded]
         [] OTHER ->
                [gen |-> [g EXCEPT !.status = "raised", !.raised = step.raised, !.rest = <<>>],
                 results |-> yielded]

\* Match.matches_for (lines 242-247) run from its start to its first
\* yield: the token match, then GlobalMatcher.apply (line 143 onwards)
Start(ms, S) ==
    LET matches == TokenMatcherApply(ms.token_matcher, S)
        filtered == FilterEdgeConstraints(ms.global_matcher, matches.tokens, S)
        gm == [ms.global_matcher EXCEPT !.captured_labels = filtered.captured_labels]
        g == [NoGen EXCEPT !.rest = filtered.merges, !.merges = filtered.merges,
                           !.queries = filtered.queries]
    IN IF matches.raised # NoError
       THEN [gm |-> ms.global_matcher, results |-> <<>>,
             gen |-> [NoGen EXCEPT !.status = "raised", !.raised = matches.raised]]
       ELSE IF filtered.raised # NoError
       THEN [gm |-> gm, results |-> <<>>,
             gen |-> [g EXCEPT !.status = "raised", !.raised = filtered.raised, !.rest = <<>>]]
       ELSE [gm |-> gm] @@ Resume(gm, g, <<>>, S)

RECURSIVE Drain(_, _, _, _)
\* a generator pulled until it ends
Drain(gm, g, yielded, S) ==
    IF g.status \in {"finished", "raised"} THEN [gen |-> g, results |-> yielded]
    ELSE LET r == Resume(gm, g, yielded, S) IN Drain(gm, r.gen, r.results, S)

\* what a caller has seen of a call that is over
OutcomeOf(g, yielded) == [raised |-> g.raised, results |-> Range(yielded)]

\* list(matches_for(name)) on a Match over S made from newly built matchers
FreshOutcome(constraint, S) ==
    LET st == Start(Matchers(constraint), S)
        end == Drain(st.gm, st.gen, st.results, S)
    IN OutcomeOf(end.gen, end.results)

(***************************************************************************)
(* The patterns and the state machine.                                     *)
(***************************************************************************)
WordA == <<"a">>

XTokens ==
    {Token("x", spec, optional, capture, <<>>, <<>>) :
        spec \in {<<>>, <<Field("WORD", <<Str(WordA)>>)>>},
        optional \in BOOLEAN, capture \in BOOLEAN}

YTokens ==
    {Token("y", <<Field("WORD", <<Str(WordA)>>)>>, optional, TRUE, <<>>, <<>>) :
        optional \in BOOLEAN}

EdgeLists ==
    {<<>>,
     <<Edge("x", "y", <<HasLabelFromList({"nsubj"})>>)>>,
     <<Edge("x", "y", <<HasLabelFromList({"nsubj"})>>),
       Edge("y", "x", <<HasNoLabel({"obj"})>>)>>}

\* the distances and the concats of a pattern
Extras ==
    {<<(<<>>), (<<>>)>>,
     <<(<<ExactDistance("x", "y", 0)>>), (<<>>)>>,
     <<(<<UptoDistance("x", "y", 0)>>), (<<>>)>>,
     <<(<<>>), (<<TokenPair("x", "y", {<<"a", "_", "a">>})>>)>>}

Patterns ==
    {Full(<<>>, <<>>, <<>>, <<>>)}
    \cup {Full(<<tx>>, <<>>, <<>>, <<>>) : tx \in XTokens}
    \cup {Full(<<tx, ty>>, edges, extra[1], extra[2]) :
            tx \in XTokens, ty \in YTokens, edges \in EdgeLists, extra \in Extras}

VARIABLES
    pattern,    \* the Full constraint a rule author supplied
    route,      \* how the matchers were built: "Matcher" or "direct"
    matchers,   \* the Matchers of the pattern, with the GlobalMatcher's captured_labels
    doc,        \* the sentence the caller handed to the Matcher last
    match,      \* the Match that call returned
    gen,        \* the generator matches_for returned
    results,    \* the MatchingResults the generator has yielded
    last,       \* the outcome of the call before, when it was on the same sentence
    m_edges,    \* SpecMerge: the edge constraints
    m_pairs,    \* SpecMerge: the surviving (child, parent) pairs of each edge
    m_i,        \* SpecMerge: the edge the merge loop is at (counted from 0)
    m_merges,   \* SpecMerge: the running merges
    c_args,     \* SpecPost, SpecDistance: the mapping handed to the method
    c_result    \* SpecPost, SpecDistance: what the method returned or raised

vars == <<pattern, route, matchers, doc, match, gen, results, last,
          m_edges, m_pairs, m_i, m_merges, c_args, c_result>>

mergeVars == <<m_edges, m_pairs, m_i, m_merges>>
callVars == <<c_args, c_result>>
matchVars == <<pattern, route, matchers, doc, match, gen, results, last>>

\* no call of the method made yet
NotCalled == [called |-> FALSE]

Completed == gen.status \in {"finished", "raised"}

Init ==
    /\ pattern \in Patterns
    /\ route = "none"
    /\ matchers = NoMatchers
    /\ doc = EmptySentence
    /\ match = NoMatch
    /\ gen = NoGen
    /\ results = <<>>
    /\ last = [set |-> FALSE]
    /\ m_edges = <<>>
    /\ m_pairs = <<>>
    /\ m_i = 0
    /\ m_merges = <<>>
    /\ c_args = EmptyDict
    /\ c_result = NotCalled

\* Matcher([NamedConstraint(name, pattern)], vocab)
NewMatcher ==
    /\ matchers.state = "none"
    /\ matchers' = MatcherInit(pattern)
    /\ route' = "Matcher"
    /\ UNCHANGED <<pattern, doc, match, gen, results, last, mergeVars, callVars>>

\* Matchers(TokenMatcher(pattern.tokens, vocab), GlobalMatcher(pattern)):
\* the compiled pair the Match facade is given, built from a pattern the
\* caller has prepared
NewMatchers ==
    /\ matchers.state = "none"
    /\ matchers' = Matchers(pattern)
    /\ route' = "direct"
    /\ UNCHANGED <<pattern, doc, match, gen, results, last, mergeVars, callVars>>

\* m = matcher(sentence), once the call before is over or abandoned
MatcherCall(S) ==
    /\ matchers.state = "built"
    /\ gen.status # "created"
    /\ doc' = S
    /\ match' = NewMatch(match, S)
    /\ gen' = NoGen
    /\ results' = <<>>
    /\ last' = IF Completed /\ S = doc
               THEN [set |-> TRUE, outcome |-> OutcomeOf(gen, results)]
               ELSE [set |-> FALSE]
    /\ UNCHANGED <<pattern, route, matchers, mergeVars, callVars>>

\* m.matches_for(name): a generator, of which nothing has run yet
MatchesFor ==
    /\ match.made
    /\ gen.status = "none"
    /\ gen' = [NoGen EXCEPT !.status = "created"]
    /\ UNCHANGED <<pattern, route, matchers, doc, match, results, last, mergeVars, callVars>>

\* next() on the generator
Pull ==
    \/ /\ gen.status = "created"
       /\ LET st == Start(matchers, match.sentence)
          IN /\ matchers' = [matchers EXCEPT !.global_matcher = st.gm]
             /\ gen' = st.gen
             /\ results' = st.results
       /\ UNCHANGED <<pattern, route, doc, match, last, mergeVars, callVars>>
    \/ /\ gen.status = "suspended"
       /\ LET r == Resume(matchers.global_matcher, gen, results, match.sentence)
          IN /\ gen' = r.gen
             /\ results' = r.results
       /\ UNCHANGED <<pattern, route, matchers, doc, match, last, mergeVars, callVars>>

Next ==
    \/ NewMatcher
    \/ NewMatchers
    \/ \E S \in Sentences : MatcherCall(S)
    \/ MatchesFor
    \/ Pull

Spec == Init /\ [][Next]_vars

(***************************************************************************)
(* The merge step on its own (lines 123-139): the loop of                  *)
(* _filter_edge_constraints over edge_assignments as lines 107-121 leave   *)
(* it, one edge per step.                                                  *)
(***************************************************************************)
Positions == 0 .. (MaxLen - 1)

\* the child and parent variables of the edge constraints of a pattern
EdgeShapes ==
    {<<Edge("x", "y", <<>>)>>,
     <<Edge("x", "x", <<>>)>>,
     <<Edge("x", "y", <<>>), Edge("y", "z", <<>>)>>,
     <<Edge("x", "y", <<>>), Edge("x", "z", <<>>)>>,
     <<Edge("x", "y", <<>>), Edge("y", "x", <<>>)>>,
     <<Edge("x", "y", <<>>), Edge("z", "z", <<>>)>>}

PairSets == {R \in SUBSET (Positions \X Positions) : Cardinality(R) <= MaxPairs}

\* edge_assignments[i] as lines 107-121 build it from the pairs that
\* survive: children outermost, one assignment per pair
AssignmentsOf(edge, pairs) ==
    LET all == CandidatePairs(SetToSeq(Positions), SetToSeq(Positions))
        kept == SelectSeq(all, LAMBDA pr : pr \in pairs)
    IN [k \in DOMAIN kept |-> PairAssignment(edge, kept[k][1], kept[k][2])]

EdgeAssignments == [i \in DOMAIN m_edges |-> AssignmentsOf(m_edges[i], m_pairs[i])]

InitMerge ==
    /\ pattern = Full(<<>>, <<>>, <<>>, <<>>)
    /\ route = "none"
    /\ matchers = NoMatchers
    /\ doc = EmptySentence
    /\ match = NoMatch
    /\ gen = NoGen
    /\ results = <<>>
    /\ last = [set |-> FALSE]
    /\ m_edges \in EdgeShapes
    /\ m_pairs \in [DOMAIN m_edges -> PairSets]
    /\ m_i = 0
    /\ m_merges = <<EmptyDict>>
    /\ c_args = EmptyDict
    /\ c_result = NotCalled

MergeDone == m_i >= Len(m_edges)

\* one pass of the loop of lines 125-137
MergeStep ==
    /\ ~MergeDone
    /\ LET new_merges == MergeEdge(m_merges, EdgeAssignments[m_i + 1])
       IN \/ /\ new_merges = <<>>
             /\ m_merges' = <<>>
             /\ m_i' = Len(m_edges)
          \/ /\ new_merges # <<>>
             /\ m_merges' = new_merges
             /\ m_i' = m_i + 1
    /\ UNCHANGED <<m_edges, m_pairs, matchVars, callVars>>

NextMerge == MergeStep

SpecMerge == InitMerge /\ [][NextMerge]_vars

(***************************************************************************)
(* _post_spacy_matcher on its own (lines 195-202): a TokenMatcher of one   *)
(* token, handed the positions of a sentence that match the token's        *)
(* attributes.                                                             *)
(***************************************************************************)
LabelLists ==
    {<<>>,
     <<HasLabelFromList({"nsubj"})>>,
     <<HasNoLabel({"nsubj"})>>,
     <<HasLabelFromList({"nsubj", "obj"}), HasNoLabel({"obj"})>>}

PostPatterns ==
    {Full(<<Token("x", spec, FALSE, TRUE, incoming, outgoing)>>, <<>>, <<>>, <<>>) :
        spec \in {<<>>, <<Field("WORD", <<Str(WordA)>>)>>},
        incoming \in LabelLists, outgoing \in LabelLists}

\* matched_tokens as lines 209-216 collect it: for each token with a match,
\* the positions the single-token matcher matched, in order
AttributeMatches(tm, S) ==
    LET matches == SpacyMatcher(tm.matcher, S)
    IN [name \in {matches[i].name : i \in DOMAIN matches} |->
            LET mine == SelectSeq(matches, LAMBDA m : m.name = name)
            IN [k \in DOMAIN mine |-> mine[k].start]]

InitPost ==
    /\ pattern \in PostPatterns
    /\ route = "direct"
    /\ matchers = Matchers(pattern)
    /\ doc \in Sentences
    /\ match = NoMatch
    /\ gen = NoGen
    /\ results = <<>>
    /\ last = [set |-> FALSE]
    /\ m_edges = <<>>
    /\ m_pairs = <<>>
    /\ m_i = 0
    /\ m_merges = <<>>
    /\ c_args = AttributeMatches(matchers.token_matcher, doc)
    /\ c_result = NotCalled

\* self._post_spacy_matcher(matched_tokens, sentence)
PostSpacy ==
    /\ ~c_result.called
    /\ c_result' = [called |-> TRUE] @@ PostSpacyMatcher(matchers.token_matcher, c_args, doc)
    /\ UNCHANGED <<matchVars, mergeVars, c_args>>

NextPost == PostSpacy

SpecPost == InitPost /\ [][NextPost]_vars

(***************************************************************************)
(* _filter_distance_constraints on its own (lines 54-69): a GlobalMatcher  *)
(* of a pattern over x and y with one or two distance constraints, handed  *)
(* an assignment of positions of a sentence to some of the variables.      *)
(***************************************************************************)
Distances ==
    {ExactDistance("x", "y", d) : d \in 0 .. (MaxLen - 1)}
        \cup {UptoDistance("x", "y", d) : d \in 0 .. (MaxLen - 1)}

DistancePatterns ==
    {Full(<<Token("x", <<>>, TRUE, TRUE, <<>>, <<>>), Token("y", <<>>, TRUE, TRUE, <<>>, <<>>)>>,
          <<>>, distances, <<>>) :
        distances \in {<<d>> : d \in Distances} \cup {<<d, e>> : d \in Distances, e \in Distances}}

\* the assignments of positions of S to some of the variables x and y
AssignmentsOver(S) == UNION {[D -> Nodes(S)] : D \in SUBSET {"x", "y"}}

InitDistance ==
    /\ pattern \in DistancePatterns
    /\ route = "direct"
    /\ matchers = Matchers(pattern)
    /\ doc \in Sentences
    /\ match = NoMatch
    /\ gen = NoGen
    /\ results = <<>>
    /\ last = [set |-> FALSE]
    /\ m_edges = <<>>
    /\ m_pairs = <<>>
    /\ m_i = 0
    /\ m_merges = <<>>
    /\ c_args \in AssignmentsOver(doc)
    /\ c_result = NotCalled

\* self._filter_distance_constraints(merged_assignment, sentence)
DistanceFilter ==
    /\ ~c_result.called
    /\ c_result' = [called |-> TRUE]
                    @@ FilterDistanceConstraints(matchers.global_matcher.constraint, c_args, doc)
    /\ UNCHANGED <<matchVars, mergeVars, c_args>>

NextDistance == DistanceFilter

SpecDistance == InitDistance /\ [][NextDistance]_vars

(***************************************************************************)
(* What the claims are checked against: a pattern read directly against a  *)
(* sentence.                                                               *)
(***************************************************************************)
\* the constraint the matchers were built from
Constraint == matchers.global_matcher.constraint

TokenIds(P) == {P.tokens[i].id : i \in DOMAIN P.tokens}
TokenOf(P, id) == CHOOSE t \in Range(P.tokens) : t.id = id
RequiredIds(P) == {t.id : t \in {u \in Range(P.tokens) : ~u.optional}}
CapturedIds(P) == {t.id : t \in {u \in Range(P.tokens) : u.capture}}

LabelsHold(label_constraints, actual) ==
    \A c \in Range(label_constraints) :
        IF c.kind = "HasNoLabel" THEN c.values \cap actual = {}
        ELSE c.values \cap actual # {}

\* node p satisfies the attribute and label constraints of the token
NodeHolds(token, S, p) ==
    /\ \A f \in Range(token.spec) :
            f.field = "WORD" => Str(S.text[p + 1]) \in Range(f.value)
    /\ LabelsHold(token.incoming_edges, UNION {S.lab[<<p, q>>] : q \in Nodes(S)})
    /\ LabelsHold(token.outgoing_edges, UNION {S.lab[<<q, p>>] : q \in Nodes(S)})

CandidatesOf(P, id, S) == {p \in Nodes(S) : NodeHolds(TokenOf(P, id), S, p)}

DistanceHolds(d, A) ==
    IF d.kind = "ExactDistance" THEN A[d.token2] - A[d.token1] - 1 = d.distance
    ELSE A[d.token2] - A[d.token1] - 1 <= d.distance

ConcatNames(c) ==
    IF c.kind = "TokenPair" THEN <<c.token1, c.token2>>
    ELSE <<c.token1, c.token2, c.token3>>

ConcatHolds(c, A, S) ==
    Join([i \in DOMAIN ConcatNames(c) |-> S.text[A[ConcatNames(c)[i]] + 1]]) \in c.tuple_set

\* every distance and phrase constraint whose variables A binds holds
BoundConstraintsHold(P, A, S) ==
    /\ \A d \in Range(P.distances) :
            ({d.token1, d.token2} \subseteq DOMAIN A) => DistanceHolds(d, A)
    /\ \A c \in Range(P.concats) :
            (Range(ConcatNames(c)) \subseteq DOMAIN A) => ConcatHolds(c, A, S)

\* A, which binds some of the variables, satisfies every constraint of P
Satisfies(P, A, S) ==
    /\ \A id \in DOMAIN A : NodeHolds(TokenOf(P, id), S, A[id])
    /\ \A e \in Range(P.edges) :
            ({e.child, e.parent} \subseteq DOMAIN A) =>
                LabelsHold(e.label, S.lab[<<A[e.child], A[e.parent]>>])
    /\ BoundConstraintsHold(P, A, S)

Restrict(A, ids) == [id \in (DOMAIN A) \cap ids |-> A[id]]

\* the reference matcher: every assignment of nodes to the variables (an
\* optional one may stay unbound) that satisfies P, cut to the captured ones
BruteForce(P, S) ==
    {Restrict(A, CapturedIds(P)) :
        A \in {B \in UNION {[D -> Nodes(S)] :
                                D \in {E \in SUBSET TokenIds(P) : RequiredIds(P) \subseteq E}} :
                    Satisfies(P, B, S)}}

Bindings == {results[i].name2index : i \in DOMAIN results}

(***************************************************************************)
(* C2 (completeness): matching preprocess(P) through the per-node matcher  *)
(* and the global matcher yields exactly the bindings the brute-force      *)
(* reference finds for P; preprocessing eliminates no valid match.         *)
(***************************************************************************)
C2_Completeness ==
    route = "Matcher" =>
        /\ matchers.state = "failed" =>
                \A S \in Sentences : BruteForce(pattern, S) = {}
        /\ Completed => /\ gen.raised = NoError
                        /\ Bindings = BruteForce(pattern, doc)

(***************************************************************************)
(* C3: when a required variable has no matching node in the sentence,      *)
(* matches_for ends normally with an empty result sequence; it never ends  *)
(* in a raised failure.                                                    *)
(***************************************************************************)
RequiredUnmatched ==
    \E id \in RequiredIds(Constraint) : CandidatesOf(Constraint, id, doc) = {}

C3_RequiredUnmatchedYieldsNothing ==
    (Completed /\ RequiredUnmatched) => (gen.raised = NoError /\ results = <<>>)

(***************************************************************************)
(* C4 (determinism): every matches_for call that is over has yielded what  *)
(* matching its sentence with newly built matchers yields, whatever calls  *)
(* came before, and so the same as the call before on the same sentence.   *)
(***************************************************************************)
C4_Determinism ==
    Completed =>
        /\ OutcomeOf(gen, results) = FreshOutcome(Constraint, doc)
        /\ last.set => OutcomeOf(gen, results) = last.outcome

\* a call repeated on the same sentence has ended with a result
C4_Witness == Completed /\ last.set /\ results # <<>>

(***************************************************************************)
(* C5 (join short-circuit): when the candidate-pair set of some edge       *)
(* constraint is empty, matches_for yields zero results, and asks the      *)
(* sentence for the labels of no pair of a later edge constraint.          *)
(***************************************************************************)
SurvivingPairs(P, e, S) ==
    {pr \in CandidatesOf(P, e.child, S) \X CandidatesOf(P, e.parent, S) :
        LabelsHold(e.label, S.lab[pr])}

\* the pairs of the edges up to edge number n
PairsUpTo(P, n, S) ==
    UNION {CandidatesOf(P, P.edges[j].child, S) \X CandidatesOf(P, P.edges[j].parent, S) :
            j \in 1 .. n}

C5_JoinShortCircuit ==
    \A n \in DOMAIN Constraint.edges :
        (Completed /\ SurvivingPairs(Constraint, Constraint.edges[n], doc) = {}) =>
            /\ gen.raised = NoError
            /\ results = <<>>
            /\ Range(gen.queries) \subseteq PairsUpTo(Constraint, n, doc)

(***************************************************************************)
(* C6 (optional-variable vacuity): a merged assignment that leaves an      *)
(* optional variable unbound, where a distance or phrase constraint names  *)
(* that variable, is emitted as a MatchingResult whenever the constraints  *)
(* over its bound variables hold; the match does not fail.                 *)
(***************************************************************************)
NamedByConstraint(P, id) ==
    \/ \E d \in Range(P.distances) : id \in {d.token1, d.token2}
    \/ \E c \in Range(P.concats) : id \in Range(ConcatNames(c))

LeavesOptionalUnbound(P, A) ==
    \E id \in TokenIds(P) \ RequiredIds(P) :
        id \notin DOMAIN A /\ NamedByConstraint(P, id)

C6_OptionalVacuity ==
    \A i \in DOMAIN gen.merges :
        ( /\ Completed
          /\ LeavesOptionalUnbound(Constraint, gen.merges[i])
          /\ BoundConstraintsHold(Constraint, gen.merges[i], doc) )
        => /\ gen.raised = NoError
           /\ Restrict(gen.merges[i], CapturedIds(Constraint)) \in Bindings

(***************************************************************************)
(* What the calls of the pipeline can end with.  Both hold of Spec: line   *)
(* 213 raises for a sentence in which any token matches and line 105       *)
(* raises for a pattern with an edge constraint, so a call that yields     *)
(* has matched nothing and has looked at no edge.                          *)
(***************************************************************************)
\* no yielded MatchingResult binds a variable or reports a label set
ResultsBindNothing ==
    \A i \in DOMAIN results :
        results[i].name2index = EmptyDict /\ results[i].indices2label = EmptyDict

\* line 119 is never reached: captured_labels stays as line 49 made it
CapturedLabelsStayEmpty == matchers.global_matcher.captured_labels = <<>>

(***************************************************************************)
(* C8: every MatchingResult binds each required, captured variable to one  *)
(* of its candidates; a pattern of one required variable and no edges      *)
(* yields one result per candidate of that variable.                       *)
(***************************************************************************)
OneRequiredNoEdges ==
    /\ Len(Constraint.tokens) = 1
    /\ ~Constraint.tokens[1].optional
    /\ Constraint.tokens[1].capture
    /\ Constraint.edges = <<>>

C8_FullAssignment ==
    Completed =>
        /\ \A A \in Bindings :
                \A id \in RequiredIds(Constraint) \cap CapturedIds(Constraint) :
                    id \in DOMAIN A /\ A[id] \in CandidatesOf(Constraint, id, doc)
        /\ OneRequiredNoEdges =>
                /\ gen.raised = NoError
                /\ Len(results) = Cardinality(CandidatesOf(Constraint, "x", doc))
                /\ Bindings = {[id \in {"x"} |-> p] : p \in CandidatesOf(Constraint, "x", doc)}

(***************************************************************************)
(* C10: the list _filter_edge_constraints returns is the natural join of   *)
(* the edges' surviving pairs: the assignments A over the edge variables   *)
(* with (A[child], A[parent]) a surviving pair of every edge constraint.   *)
(***************************************************************************)
PatternJoin(P, S) ==
    {A \in [UNION {{e.child, e.parent} : e \in Range(P.edges)} -> Nodes(S)] :
        \A e \in Range(P.edges) : <<A[e.child], A[e.parent]>> \in SurvivingPairs(P, e, S)}

C10_MergeIsNaturalJoin ==
    LET matches == TokenMatcherApply(matchers.token_matcher, doc)
        filtered == FilterEdgeConstraints(matchers.global_matcher, matches.tokens, doc)
    IN (Completed /\ Constraint.edges # <<>> /\ matches.raised = NoError) =>
            /\ filtered.raised = NoError
            /\ Range(filtered.merges) = PatternJoin(Constraint, doc)

(***************************************************************************)
(* The loop of lines 123-139 on its own, under SpecMerge.                  *)
(***************************************************************************)
EdgeVars(n) == UNION {{m_edges[j].child, m_edges[j].parent} : j \in 1 .. n}

\* the assignments over the variables of the first n edges that put a
\* surviving pair on each of them
NaturalJoin(n) ==
    {A \in [EdgeVars(n) -> Positions] :
        \A j \in 1 .. n : <<A[m_edges[j].child], A[m_edges[j].parent]>> \in m_pairs[j]}

Agree(a, b) == \A k \in (DOMAIN a) \cap (DOMAIN b) : a[k] = b[k]

\* a running assignment and an edge's assignment merge exactly when they
\* agree on the variables they share
MergesIffAgree ==
    ~MergeDone =>
        \A m \in DOMAIN m_merges : \A a \in DOMAIN EdgeAssignments[m_i + 1] :
            LET merged == m_merges[m]
                assignment == EdgeAssignments[m_i + 1][a]
            IN /\ Truthy(TryMerge(merged, assignment)) <=> Agree(merged, assignment)
               /\ Agree(merged, assignment) =>
                    TryMerge(merged, assignment) = DictMerge(merged, assignment)

\* the list the loop ends with holds the join, each assignment once
EndsWithJoin ==
    MergeDone =>
        /\ Range(m_merges) = NaturalJoin(Len(m_edges))
        /\ Len(m_merges) = Cardinality(NaturalJoin(Len(m_edges)))
        /\ m_merges = MergeFrom(EdgeAssignments, 0, <<EmptyDict>>)

DistinctEnds == \A j \in DOMAIN m_edges : m_edges[j].child # m_edges[j].parent

\* Holds of SpecMerge: given the assignments of edges whose child and parent
\* are different variables, the loop computes their natural join.
MergeLoopJoinsDistinctEnds == DistinctEnds => (MergesIffAgree /\ EndsWithJoin)

\* Fails of SpecMerge: line 117 keeps only the parent of a pair of an edge
\* whose child and parent are one variable, so the loop keeps assignments
\* the join has not.
MergeLoopJoins == MergesIffAgree /\ EndsWithJoin

(***************************************************************************)
(* C11 (per-node label filtering is conjunctive): a position matched on    *)
(* attributes stays in the variable's candidate set exactly when every     *)
(* incoming-label constraint holds of the node's incoming labels and every *)
(* outgoing-label constraint of its outgoing labels; an empty constraint   *)
(* list costs no candidate.                                                *)
(***************************************************************************)
C11_ConjunctiveLabelFiltering ==
    c_result.called =>
        /\ c_result.raised = NoError
        /\ DOMAIN c_result.tokens = DOMAIN c_args
        /\ \A name \in DOMAIN c_args : \A p \in Range(c_args[name]) :
                p \in Range(c_result.tokens[name]) <=>
                    /\ LabelsHold(TokenOf(pattern, name).incoming_edges, GetLabelsOfChild(doc, p))
                    /\ LabelsHold(TokenOf(pattern, name).outgoing_edges, GetLabelsOfParent(doc, p))

(***************************************************************************)
(* C12 (the distance filter): for an assignment that binds both variables  *)
(* of the distance constraints, with d = position(token2) -                *)
(* position(token1) - 1, the filter returns a verdict and does not fail,   *)
(* and it accepts exactly when d equals the distance of an exact-distance  *)
(* constraint and does not exceed the bound of an up-to constraint.        *)
(***************************************************************************)
C12_DistanceFilter ==
    (c_result.called /\ {"x", "y"} \subseteq DOMAIN c_args) =>
        /\ c_result.raised = NoError
        /\ c_result.value <=> \A d \in Range(pattern.distances) : DistanceHolds(d, c_args)

=============================================================================
